---- MODULE Spec2Model ----
(***************************************************************************)
(* Model of nireports.reportlets.modality.func.fMRIPlot: the constructor   *)
(* that normalises the optional tables into per-signal dictionaries, and   *)
(* plot(), which lays out a GridSpec and calls spikesplot, confoundplot    *)
(* and plot_carpet row by row.                                             *)
(*                                                                         *)
(* Python values are encoded as follows.                                   *)
(*   None / optional    : the empty set is None, {x} is the value x        *)
(*   dict (ordered)     : [keys |-> sequence of keys, val |-> function]    *)
(*   dict of a record   : a function whose DOMAIN is the set of its keys   *)
(*   ndarray            : [shape |-> sequence of extents, data |-> flat]   *)
(*   result of tolist() : [kind |-> "scalar" or "list", items |-> seq]     *)
(***************************************************************************)
EXTENDS Integers, Sequences, FiniteSets, TLC

VARIABLES pc, args, self, figure, grid, grid_id, palette, i, calls, nplots, result

vars == <<pc, args, self, figure, grid, grid_id, palette, i, calls, nplots, result>>

----------------------------------------------------------------------------
(* Bounds of the explored inputs *)

MaxCols == 2

MaxPhysio == 1

MaxPhysioConfounds == 1

MaxSpikes == 1

MaxPlots == 2

(* Row counts of the tables, column names, unit strings, cutoff values (in  *)
(* tenths) and repetition times the constructor is called with             *)
RowCounts == {1, 2}

ColNames == {"FD", "HR_reg"}

KeySets == {{}, {"HR_reg"}}

UnitVals == {"mm"}

CutoffVals == {5}

TrVals == {2}

(* (nskip, sort_carpet, paired_carpet): the defaults, and all three given *)
CarpetOpts ==
    {[nskip |-> 0, sort_carpet |-> TRUE, paired_carpet |-> FALSE],
     [nskip |-> 4, sort_carpet |-> FALSE, paired_carpet |-> TRUE]}

----------------------------------------------------------------------------
(* Python helpers *)

None == {}

Some(x) == {x}

IsNone(o) == o = {}

The(o) == CHOOSE x \in o : TRUE

Range(s) == {s[k] : k \in 1..Len(s)}

EmptyDict == [keys |-> <<>>, val |-> <<>>]

DictLen(d) == Len(d.keys)

Truthy(d) == DictLen(d) > 0

DictSetItem(d, k, v) ==
    IF k \in Range(d.keys)
    THEN [d EXCEPT !.val = [x \in DOMAIN d.val |-> IF x = k THEN v ELSE d.val[x]]]
    ELSE [keys |-> Append(d.keys, k),
          val  |-> [x \in (DOMAIN d.val) \cup {k} |-> IF x = k THEN v ELSE d.val[x]]]

(* mapping.get(name): the mapped value, or None when the key is absent *)
Get(m, name) == IF name \in DOMAIN m THEN Some(m[name]) ELSE None

(* kwargs.pop(key): the dictionary without the key *)
Pop(kwargs, key) == [f \in (DOMAIN kwargs) \ {key} |-> kwargs[f]]

(* seq[k] with Python's index rules: 0-based, negative counts from the end *)
PyIndex(len, k) == IF k < 0 THEN len + k ELSE k

----------------------------------------------------------------------------
(* Tables: a DataFrame is [columns |-> sequence of names, nrows |-> n];    *)
(* the number in row k of column name is Cell(name, k).                    *)

Cell(name, k) == k + (IF name = "FD" THEN 0 ELSE 10)

(* table[[name]].values : an n-by-1 array *)
ColumnValues(table, name) ==
    [shape |-> <<table.nrows, 1>>,
     data  |-> [k \in 1..table.nrows |-> Cell(name, k)]]

(* ndarray.squeeze(): every axis of extent 1 is removed *)
Squeeze(a) == [shape |-> SelectSeq(a.shape, LAMBDA e : e # 1), data |-> a.data]

(* ndarray.tolist(): a 0-d array gives a bare number, a 1-d array a list *)
ToList(a) ==
    IF a.shape = <<>> THEN [kind |-> "scalar", items |-> a.data]
                      ELSE [kind |-> "list", items |-> a.data]

Values(table, name) == ToList(Squeeze(ColumnValues(table, name)))

----------------------------------------------------------------------------
(* Inputs of the constructor *)

ColumnLists(max) ==
    {c \in UNION {[1..m -> ColNames] : m \in 1..max} :
        \A a, b \in 1..Len(c) : a # b => c[a] # c[b]}

Tables(n, max) == {[columns |-> c, nrows |-> n] : c \in ColumnLists(max)}

OptTables(n, max) == {None} \cup {Some(t) : t \in Tables(n, max)}

UnitMaps == {None} \cup {Some(m) : m \in UNION {[K -> UnitVals] : K \in KeySets}}

CutoffMaps == {None} \cup {Some(m) : m \in UNION {[K -> CutoffVals] : K \in KeySets}}

(* the table pd.read_csv finds in the confounds file *)
ReadCsv(conf_file, n) == [columns |-> <<"FD">>, nrows |-> n]

(* np.loadtxt(sp_file) *)
LoadTxt(sp_file) == [file |-> sp_file]

----------------------------------------------------------------------------
(* fMRIPlot.__init__ *)

ConfoundRecordNoCutoff(table, name, units, vlines) ==
    [values |-> Values(table, name),
     units  |-> Get(units, name),
     cutoff |-> None]

ConfoundRecord(table, name, units, vlines) ==
    [values |-> Values(table, name),
     units  |-> Get(units, name),
     cutoff |-> Get(vlines, name)]

PhysioRecord(table, name, units, vlines) ==
    [values |-> Values(table, name),
     units  |-> Get(units, name)]

PhysioConfoundRecordWithCutoff(table, name, units, vlines) ==
    [values |-> Values(table, name),
     units  |-> Get(units, name),
     cutoff |-> Get(vlines, name)]

PhysioConfoundRecord(table, name, units, vlines) ==
    [values |-> Values(table, name),
     units  |-> Get(units, name)]

(* for name in table.columns: self.<category>[name] = recs[name] *)
RECURSIVE FillDict(_, _, _, _)
FillDict(d, columns, recs, k) ==
    IF k > Len(columns) THEN d
    ELSE FillDict(DictSetItem(d, columns[k], recs[k]), columns, recs, k + 1)

(* "if units is None: units = {}" *)
OrEmpty(m) == IF IsNone(m) THEN <<>> ELSE The(m)

(* the confounds table after "if confounds is None and conf_file" *)
ConfoundsTable(a) ==
    IF IsNone(a.confounds) /\ ~IsNone(a.conf_file)
    THEN Some(ReadCsv(The(a.conf_file), a.n))
    ELSE a.confounds

BuildConfounds(a) ==
    IF IsNone(ConfoundsTable(a)) THEN EmptyDict
    ELSE LET t == The(ConfoundsTable(a))
         IN  FillDict(EmptyDict, t.columns,
                      [k \in 1..Len(t.columns) |->
                          ConfoundRecord(t, t.columns[k], OrEmpty(a.units), OrEmpty(a.vlines))],
                      1)

BuildPhysio(a) ==
    IF IsNone(a.physio) THEN EmptyDict
    ELSE LET t == The(a.physio)
         IN  FillDict(EmptyDict, t.columns,
                      [k \in 1..Len(t.columns) |->
                          PhysioRecord(t, t.columns[k], OrEmpty(a.units), OrEmpty(a.vlines))],
                      1)

BuildPhysioConfounds(a) ==
    IF IsNone(a.physio_confounds) THEN EmptyDict
    ELSE LET t == The(a.physio_confounds)
         IN  FillDict(EmptyDict, t.columns,
                      [k \in 1..Len(t.columns) |->
                          PhysioConfoundRecord(t, t.columns[k], OrEmpty(a.units), OrEmpty(a.vlines))],
                      1)

BuildSpikes(a) ==
    [k \in 1..Len(a.spikes_files) |->
        [tsz |-> LoadTxt(a.spikes_files[k]), name |-> None, iszs |-> FALSE]]

NewObject(a) ==
    [timeseries       |-> a.timeseries,
     segments         |-> a.segments,
     tr               |-> a.tr,
     nskip            |-> a.carpet.nskip,
     sort_carpet      |-> a.carpet.sort_carpet,
     paired_carpet    |-> a.carpet.paired_carpet,
     confounds        |-> BuildConfounds(a),
     physio           |-> BuildPhysio(a),
     physio_confounds |-> BuildPhysioConfounds(a),
     spikes           |-> BuildSpikes(a)]

----------------------------------------------------------------------------
(* Arguments of the constructor call explored by the model *)

SpikeFileLists == {[k \in 1..m |-> k] : m \in 0..MaxSpikes}

(* a confounds file is given only in calls that give no confounds table *)
ArgSets ==
    {a \in UNION {[n                : {n},
                   timeseries       : {"timeseries"},
                   segments         : {"segments"},
                   confounds        : OptTables(n, MaxCols),
                   conf_file        : {None, Some("confounds.tsv")},
                   physio           : OptTables(n, MaxPhysio),
                   physio_confounds : OptTables(n, MaxPhysioConfounds),
                   tr               : {None} \cup {Some(t) : t \in TrVals},
                   units            : UnitMaps,
                   vlines           : CutoffMaps,
                   spikes_files     : SpikeFileLists,
                   carpet           : CarpetOpts] : n \in RowCounts} :
        ~IsNone(a.conf_file) => IsNone(a.confounds)}

----------------------------------------------------------------------------
(* fMRIPlot.plot *)

nconfounds == DictLen(self.confounds)

nspikes == Len(self.spikes)

nphysio == DictLen(self.physio)

nphysio_confounds == DictLen(self.physio_confounds)

Nrows == 1 + nconfounds + nspikes + nphysio + nphysio_confounds

Repeat(x, n) == [k \in 1..n |-> x]

CarpetRatio == 5

HeightRatiosEqual(rows) == Repeat(1, rows)

(* [1] * (nrows - 1) + [5] *)
HeightRatios(rows) == Repeat(1, rows - 1) \o <<CarpetRatio>>

GridSpec(rows) == [nrows |-> rows, height_ratios |-> HeightRatios(rows)]

(* color_palette("husl", k): k colours, the j-th of k evenly spaced hues *)
ColorPalette(k) == [j \in 1..k |-> [hue |-> j - 1, of |-> k]]

NeedsPaletteAlways(obj) == TRUE

(* "if self.confounds or self.physio or self.physio_confounds" *)
NeedsPalette(obj) ==
    Truthy(obj.confounds) \/ Truthy(obj.physio) \/ Truthy(obj.physio_confounds)

ConfoundColorIndex(nc, np, k) == k

PhysioColorIndexNoOffset(nc, np, k) == k

PhysioColorIndex(nc, np, k) == nc + k

PhysioConfoundColorIndex(nc, np, k) == nc + np + k

ConfoundTr(tr) == tr

PhysioTrGlobal(tr) == tr

(* the literal tr=None of the physio loop *)
PhysioTr(tr) == None

PhysioConfoundTr(tr) == tr

(* cmap="paired" if self.paired_carpet else None *)
Cmap(paired_carpet) == IF paired_carpet THEN Some("paired") ELSE None

SpikesplotCall(obj, sp, row) ==
    [fn |-> "spikesplot", cat |-> "spikes", row |-> row, data |-> sp.tsz,
     kw |-> [title |-> sp.name, tr |-> obj.tr, zscored |-> sp.iszs]]

(* confoundplot(tseries, grid[grid_id], tr=.., color=.., name=.., **kwargs) *)
ConfoundplotCall(cat, tseries, row, tr, color, name, kwargs) ==
    [fn |-> "confoundplot", cat |-> cat, row |-> row, data |-> tseries,
     kw |-> [f \in {"tr", "color", "name"} \cup DOMAIN kwargs |->
                CASE f = "tr" -> tr
                  [] f = "color" -> color
                  [] f = "name" -> name
                  [] OTHER -> kwargs[f]]]

CarpetCall(obj, row) ==
    [fn |-> "plot_carpet", cat |-> "carpet", row |-> row, data |-> obj.timeseries,
     kw |-> [segments  |-> obj.segments,
             tr        |-> obj.tr,
             sort_rows |-> obj.sort_carpet,
             drop_trs  |-> obj.nskip,
             cmap      |-> Cmap(obj.paired_carpet)]]

Returned(fig) == [kind |-> "returned", v |-> fig]

Raised(exc) == [kind |-> "raised", v |-> exc]

NoResult == [kind |-> "none", v |-> "none"]

(* the exception, if any, that evaluating grid[row] and palette[idx] raises *)
CallError(row, idx) ==
    IF row >= grid.nrows THEN "IndexError"
    ELSE IF IsNone(palette) THEN "NameError"
    ELSE IF idx >= Len(The(palette)) THEN "IndexError"
    ELSE "ok"

Init ==
    /\ args \in ArgSets
    /\ self = NewObject(args)
    /\ pc = "idle"
    /\ figure = None
    /\ grid = GridSpec(1)
    /\ grid_id = 0
    /\ palette = None
    /\ i = 0
    /\ calls = <<>>
    /\ nplots = 0
    /\ result = NoResult

(* lines 130-142: pick the figure, count the rows, build the grid *)
PlotBegin(fig) ==
    /\ pc = "idle"
    /\ nplots < MaxPlots
    /\ nplots' = nplots + 1
    /\ figure' = IF IsNone(fig) THEN Some("gcf") ELSE fig
    /\ grid' = GridSpec(Nrows)
    /\ grid_id' = 0
    /\ palette' = None
    /\ i' = 0
    /\ calls' = <<>>
    /\ result' = NoResult
    /\ pc' = "spikes"
    /\ UNCHANGED <<args, self>>

(* lines 143-145: one iteration of the spikes loop *)
PlotSpike ==
    /\ pc = "spikes"
    /\ i < nspikes
    /\ calls' = Append(calls, SpikesplotCall(self, self.spikes[i + 1], PyIndex(grid.nrows, grid_id)))
    /\ grid_id' = grid_id + 1
    /\ i' = i + 1
    /\ UNCHANGED <<pc, args, self, figure, grid, palette, nplots, result>>

(* lines 147-150: after the spikes loop, the palette *)
PlotPalette ==
    /\ pc = "spikes"
    /\ i = nspikes
    /\ palette' = IF NeedsPalette(self)
                  THEN Some(ColorPalette(nconfounds + nphysio + nphysio_confounds))
                  ELSE palette
    /\ i' = 0
    /\ pc' = "confounds"
    /\ UNCHANGED <<args, self, figure, grid, grid_id, calls, nplots, result>>

(* One iteration of a trace loop over the dictionary self[cat]:            *)
(* kwargs.pop("values") on the stored record, then the confoundplot call.  *)
TraceStep(cat, tr, idx) ==
    LET d      == self[cat]
        name   == d.keys[i + 1]
        kwargs == d.val[name]
        rest   == Pop(kwargs, "values")
        popped == [self EXCEPT ![cat] = DictSetItem(d, name, rest)]
        err    == CallError(grid_id, idx)
    IN  IF "values" \notin DOMAIN kwargs
        THEN /\ result' = Raised("KeyError")
             /\ pc' = "idle"
             /\ UNCHANGED <<args, self, figure, grid, grid_id, palette, i, calls, nplots>>
        ELSE IF err # "ok"
        THEN /\ self' = popped
             /\ result' = Raised(err)
             /\ pc' = "idle"
             /\ UNCHANGED <<args, figure, grid, grid_id, palette, i, calls, nplots>>
        ELSE /\ self' = popped
             /\ calls' = Append(calls,
                    ConfoundplotCall(cat, kwargs.values, PyIndex(grid.nrows, grid_id),
                                     tr, The(palette)[idx + 1], name, rest))
             /\ grid_id' = grid_id + 1
             /\ i' = i + 1
             /\ UNCHANGED <<pc, args, figure, grid, palette, nplots, result>>

(* lines 152-155 *)
PlotConfound ==
    /\ pc = "confounds"
    /\ i < nconfounds
    /\ TraceStep("confounds", ConfoundTr(self.tr), ConfoundColorIndex(nconfounds, nphysio, i))

ConfoundsDone ==
    /\ pc = "confounds"
    /\ i = nconfounds
    /\ i' = 0
    /\ pc' = "physio"
    /\ UNCHANGED <<args, self, figure, grid, grid_id, palette, calls, nplots, result>>

(* lines 158-162 *)
PlotPhysio ==
    /\ pc = "physio"
    /\ i < nphysio
    /\ TraceStep("physio", PhysioTr(self.tr), PhysioColorIndex(nconfounds, nphysio, i))

PhysioDone ==
    /\ pc = "physio"
    /\ i = nphysio
    /\ i' = 0
    /\ pc' = "physio_confounds"
    /\ UNCHANGED <<args, self, figure, grid, grid_id, palette, calls, nplots, result>>

(* lines 165-168 *)
PlotPhysioConfound ==
    /\ pc = "physio_confounds"
    /\ i < nphysio_confounds
    /\ TraceStep("physio_confounds", PhysioConfoundTr(self.tr),
                 PhysioConfoundColorIndex(nconfounds, nphysio, i))

(* lines 170-179: after the last trace loop, the carpet and the return *)
PlotCarpet ==
    /\ pc = "physio_confounds"
    /\ i = nphysio_confounds
    /\ calls' = Append(calls, CarpetCall(self, PyIndex(grid.nrows, -1)))
    /\ result' = Returned(figure)
    /\ pc' = "idle"
    /\ UNCHANGED <<args, self, figure, grid, grid_id, palette, i, nplots>>

Next ==
    \/ \E fig \in {None, Some("fig")} : PlotBegin(fig)
    \/ PlotSpike
    \/ PlotPalette
    \/ PlotConfound
    \/ ConfoundsDone
    \/ PlotPhysio
    \/ PhysioDone
    \/ PlotPhysioConfound
    \/ PlotCarpet

Spec == Init /\ [][Next]_vars

----------------------------------------------------------------------------
(* The caller's inputs, as the properties below refer to them *)

ColumnsOf(optTable) == IF IsNone(optTable) THEN <<>> ELSE The(optTable).columns

ConfoundCols == ColumnsOf(ConfoundsTable(args))

PhysioCols == ColumnsOf(args.physio)

PhysioConfoundCols == ColumnsOf(args.physio_confounds)

C == Len(ConfoundCols)

S == Len(args.spikes_files)

P == Len(PhysioCols)

Q == Len(PhysioConfoundCols)

UnitsGiven == IF IsNone(args.units) THEN <<>> ELSE The(args.units)

CutoffsGiven == IF IsNone(args.vlines) THEN <<>> ELSE The(args.vlines)

IndexOf(seq, x) == CHOOSE k \in 1..Len(seq) : seq[k] = x

CallsOf(cat) == {k \in 1..Len(calls) : calls[k].cat = cat}

TraceCalls == CallsOf("confounds") \cup CallsOf("physio") \cup CallsOf("physio_confounds")

PlotEnded == pc = "idle" /\ nplots > 0

(* what the k-th render call of a full plot() is about: category and item *)
ExpectedOrder ==
    [k \in 1..S |-> <<"spikes", LoadTxt(args.spikes_files[k])>>]
    \o [k \in 1..C |-> <<"confounds", ConfoundCols[k]>>]
    \o [k \in 1..P |-> <<"physio", PhysioCols[k]>>]
    \o [k \in 1..Q |-> <<"physio_confounds", PhysioConfoundCols[k]>>]
    \o << <<"carpet", args.timeseries>> >>

Subject(call) ==
    IF call.cat \in {"spikes", "carpet"} THEN <<call.cat, call.data>>
    ELSE <<call.cat, call.kw.name>>

----------------------------------------------------------------------------
(* C1: every plot() builds a grid of C+S+P+Q+1 rows and, once it has       *)
(* ended, has issued one render call per row: spikes in file order, then   *)
(* confounds, physio and physio-confounds in column order, then the        *)
(* carpet, the k-th call (from 0) on grid row k.                           *)
C1_RowPerRenderCall ==
    PlotEnded =>
        /\ grid.nrows = C + S + P + Q + 1
        /\ Len(calls) = grid.nrows
        /\ \A k \in 1..Len(calls) :
              /\ calls[k].row = k - 1
              /\ Subject(calls[k]) = ExpectedOrder[k]

(* C2: each confound record carries units[n] and vlines[n] when the        *)
(* caller's mapping has the key n, none otherwise; there is a record for   *)
(* every column, and an omitted mapping acts as an empty one.              *)
C2_UnitsCutoffLookup ==
    /\ self.confounds.keys = ConfoundCols
    /\ \A k \in 1..C :
          LET name == ConfoundCols[k]
              rec  == self.confounds.val[name]
          IN  /\ rec.units = (IF name \in DOMAIN UnitsGiven
                              THEN Some(UnitsGiven[name]) ELSE None)
              /\ rec.cutoff = (IF name \in DOMAIN CutoffsGiven
                               THEN Some(CutoffsGiven[name]) ELSE None)

C2_Witness ==
    /\ ConfoundCols = <<"FD", "HR_reg">>
    /\ DOMAIN UnitsGiven = {"HR_reg"}
    /\ DOMAIN CutoffsGiven = {"HR_reg"}
    /\ self.confounds.val["HR_reg"].units = Some("mm")
    /\ self.confounds.val["HR_reg"].cutoff = Some(5)
    /\ self.confounds.val["FD"].units = None
    /\ self.confounds.val["FD"].cutoff = None

(* C3: every confoundplot call of the physio loop is passed tr = none;     *)
(* every other render call is passed the constructor's TR.                 *)
C3_PhysioTrNone ==
    \A k \in 1..Len(calls) :
        calls[k].kw.tr = (IF calls[k].cat = "physio" THEN None ELSE args.tr)

C3_Witness ==
    /\ ~IsNone(args.tr)
    /\ PlotEnded
    /\ result.kind = "returned"
    /\ CallsOf("physio") # {}
    /\ CallsOf("confounds") # {}
    /\ CallsOf("physio_confounds") # {}
    /\ CallsOf("spikes") # {}

(* C4: a computed palette has C+P+Q entries when C+P+Q > 0; the confound   *)
(* at position i is drawn with entry i, the physio signal at position i    *)
(* with entry C+i, the physio-confound at position i with entry C+P+i,     *)
(* entries of the palette of that size; no two signals share an entry.     *)
ExpectedColorIndex(call) ==
    CASE call.cat = "confounds" -> IndexOf(ConfoundCols, call.kw.name) - 1
      [] call.cat = "physio" -> C + IndexOf(PhysioCols, call.kw.name) - 1
      [] call.cat = "physio_confounds" ->
             C + P + IndexOf(PhysioConfoundCols, call.kw.name) - 1

C4_PaletteIndices ==
    /\ (C + P + Q > 0 /\ nplots > 0 /\ pc # "spikes") =>
            /\ ~IsNone(palette)
            /\ Len(The(palette)) = C + P + Q
    /\ \A k \in TraceCalls :
          /\ ExpectedColorIndex(calls[k]) \in 0..(C + P + Q - 1)
          /\ calls[k].kw.color = ColorPalette(C + P + Q)[ExpectedColorIndex(calls[k]) + 1]
    /\ \A k, l \in TraceCalls : k # l => calls[k].kw.color # calls[l].kw.color

C4_Witness ==
    /\ C = 2 /\ P = 1 /\ Q = 1
    /\ PlotEnded
    /\ Cardinality(TraceCalls) = 4

(* C6: a physio-confound record never has a cutoff and its confoundplot    *)
(* call is given none, also when vlines has an entry for the column.       *)
NoCutoff(kwargs) == "cutoff" \in DOMAIN kwargs => kwargs.cutoff = None

C6_PhysioConfoundNoCutoff ==
    /\ \A k \in 1..Q : NoCutoff(self.physio_confounds.val[PhysioConfoundCols[k]])
    /\ \A k \in CallsOf("physio_confounds") : NoCutoff(calls[k].kw)

C6_Witness ==
    \E k \in CallsOf("physio_confounds") : calls[k].kw.name \in DOMAIN CutoffsGiven

(* C7: in every grid plot() builds the last row has height ratio 5 and     *)
(* every other row 1, and a carpet call is on the last row, the row after  *)
(* the last signal row.                                                    *)
C7_CarpetLastAndTallest ==
    nplots > 0 =>
        /\ Len(grid.height_ratios) = grid.nrows
        /\ \A r \in 1..grid.nrows :
              grid.height_ratios[r] = (IF r = grid.nrows THEN 5 ELSE 1)
        /\ \A k \in CallsOf("carpet") :
              /\ calls[k].row = grid.nrows - 1
              /\ calls[k].row = C + S + P + Q
              /\ \A l \in 1..Len(calls) : l # k => calls[l].row < calls[k].row

C7_Witness ==
    /\ grid.nrows >= 3
    /\ CallsOf("carpet") # {}

(* C5: the signal records stay as the constructor built them, whatever     *)
(* number of plot() calls has been made on the object.                     *)
C5_RecordsImmutable ==
    /\ self.confounds = BuildConfounds(args)
    /\ self.physio = BuildPhysio(args)
    /\ self.physio_confounds = BuildPhysioConfounds(args)

(* C8: a plot() that has ended has called plot_carpet exactly once, as its *)
(* last render call, with the matrix, segments, TR, sort flag and skip     *)
(* count of the constructor and cmap "paired" exactly when the paired flag *)
(* is set, none otherwise.                                                 *)
C8_CarpetOnceLast ==
    PlotEnded =>
        /\ CallsOf("carpet") = {Len(calls)}
        /\ LET call == calls[Len(calls)]
           IN  /\ call.fn = "plot_carpet"
               /\ call.data = args.timeseries
               /\ call.kw.segments = args.segments
               /\ call.kw.tr = args.tr
               /\ call.kw.sort_rows = args.carpet.sort_carpet
               /\ call.kw.drop_trs = args.carpet.nskip
               /\ call.kw.cmap = (IF args.carpet.paired_carpet THEN Some("paired") ELSE None)

(* C9: with no confound, physio or physio-confound column, no palette is   *)
(* computed or indexed and no plot() raises: once ended it has rendered    *)
(* the spike rows and the carpet row and returned the figure.              *)
C9_CarpetOnlyFigure ==
    (C = 0 /\ P = 0 /\ Q = 0) =>
        /\ IsNone(palette)
        /\ TraceCalls = {}
        /\ result.kind # "raised"
        /\ PlotEnded =>
              /\ result = Returned(figure)
              /\ ~IsNone(figure)
              /\ Len(calls) = S + 1
              /\ \A k \in 1..S : calls[k].cat = "spikes" /\ calls[k].row = k - 1
              /\ calls[S + 1].cat = "carpet" /\ calls[S + 1].row = S

C9_Witness ==
    /\ C = 0 /\ P = 0 /\ Q = 0
    /\ S = 1
    /\ PlotEnded
    /\ result.kind = "returned"
    /\ Len(calls) = 2

(* C10: the values of every record are a list of exactly n numbers, the    *)
(* column in row order, for every table of n >= 1 rows.                    *)
IsColumnList(v, name) ==
    /\ v.kind = "list"
    /\ Len(v.items) = args.n
    /\ \A k \in 1..args.n : v.items[k] = Cell(name, k)

C10_ValuesAreLists ==
    \A cat \in {"confounds", "physio", "physio_confounds"} :
        \A name \in Range(self[cat].keys) :
            "values" \in DOMAIN self[cat].val[name] =>
                IsColumnList(self[cat].val[name].values, name)

====
